---- MODULE Spec2Model ----
(***************************************************************************)
(* Model of quiz_app.py: a Streamlit quiz over a Google Sheet.             *)
(*                                                                         *)
(* The script is re-executed from the top on every user interaction; what  *)
(* survives between two executions is st.session_state, the st.cache_data  *)
(* entry of load_data_from_gsheets, the sheet itself and the page the      *)
(* browser still shows.  One action below is one execution of the script   *)
(* (with the executions chained by st.rerun() folded into it).             *)
(*                                                                         *)
(* Strings typed by the user are sequences of one-character strings.       *)
(* Row identities are the 0-based DataFrame index; the sheet is addressed  *)
(* by its own 1-based row numbers, row 1 being the header row.             *)
(***************************************************************************)
EXTENDS Integers, Sequences, FiniteSets, TLC

\* ---------------------------------------------------------------- bounds
NumRows == 3        \* data rows of the sheet
MaxLen == 3         \* longest chapter expression the user types
MaxFailures == 1    \* sheet writes that fail in one session
MaxQuizzes == 1     \* quizzes started in one session

\* ------------------------------------------------------------ sheet data
Rows == 0 .. (NumRows - 1)

\* the 'Chapter' column of the sheet: rows alternate between chapters 1, 2
Chapter == [r \in Rows |-> 1 + (r % 2)]

\* the 'Correct Answer' column of the sheet, in mixed case
CorrectAnswer == [r \in Rows |-> <<"A", "b", "C", "d">>[1 + (r % 4)]]

CounterCols == {"Attempted", "Incorrect attempt"}

\* a sheet cell: a number, a text that is no number, or an empty cell
Num(n) == [kind |-> "num", v |-> n]
Text == [kind |-> "text", v |-> 0]
Blank == [kind |-> "blank", v |-> 0]

\* (Attempted, Incorrect attempt) cells a sheet row may hold at the start:
\* never attempted, attempted and last answered wrong, left empty or filled
\* with text, and a negative number typed into the sheet
SeedCells ==
  << [c \in CounterCols |-> Num(0)],
     [c \in CounterCols |-> Num(1)],
     [c \in CounterCols |-> IF c = "Attempted" THEN Blank ELSE Text],
     [c \in CounterCols |-> IF c = "Attempted" THEN Num(1) ELSE Num(-1)] >>

\* gsheet_row_number = row_index + 2
gsheet_row_number(row_index) == row_index + 2

SheetRows == { gsheet_row_number(r) : r \in Rows }

\* the sheets a session may start from: sheet k gives its rows the seed
\* cells in turn, starting with seed k
SeedSheets ==
  { [n \in SheetRows |-> SeedCells[1 + ((k + n) % Len(SeedCells))]] :
      k \in 1 .. Len(SeedCells) }

\* pd.to_numeric(errors='coerce').fillna(0).astype(int) on one cell
to_int(cell) == IF cell.kind = "num" THEN cell.v ELSE 0

\* conn.read(...) followed by the coercion of the counter columns: the
\* DataFrame, as its two counter columns indexed by row identity
read_df(sheet) ==
  [c \in CounterCols |-> [r \in Rows |-> to_int(sheet[gsheet_row_number(r)][c])]]

\* a session_state key that was never assigned a table / dictionary
Missing == <<>>

\* ------------------------------------------------------- string helpers
Digits == {"1", "2"}
Alphabet == Digits \cup {",", "-", " ", "a", "l"}
Inputs == UNION { [1 .. k -> Alphabet] : k \in 0 .. MaxLen }

DigitVal(c) == IF c = "1" THEN 1 ELSE 2

\* str.split(sep)
RECURSIVE split(_, _)
split(s, sep) ==
  IF \E i \in 1 .. Len(s) : s[i] = sep
  THEN LET i == CHOOSE k \in 1 .. Len(s) :
                  s[k] = sep /\ \A j \in 1 .. (k - 1) : s[j] # sep
       IN  <<SubSeq(s, 1, i - 1)>> \o split(SubSeq(s, i + 1, Len(s)), sep)
  ELSE <<s>>

\* str.strip()
RECURSIVE strip(_)
strip(s) ==
  IF Len(s) = 0 THEN s
  ELSE IF s[1] = " " THEN strip(Tail(s))
  ELSE IF s[Len(s)] = " " THEN strip(SubSeq(s, 1, Len(s) - 1))
  ELSE s

\* int(s) raises ValueError unless s, stripped, is a non-empty digit string
\* (signs and underscores cannot occur: the alphabet has no '+' or '_', and
\* '-' never reaches int(), see parse_chapter_input)
int_raises(s) ==
  LET u == strip(s) IN Len(u) = 0 \/ \E i \in 1 .. Len(u) : u[i] \notin Digits

RECURSIVE digits_value(_)
digits_value(u) ==
  IF Len(u) = 0 THEN 0
  ELSE 10 * digits_value(SubSeq(u, 1, Len(u) - 1)) + DigitVal(u[Len(u)])

int(s) == digits_value(strip(s))

\* sorted(list)
RECURSIVE sorted(_)
sorted(S) ==
  IF S = {} THEN <<>>
  ELSE LET m == CHOOSE x \in S : \A y \in S : x <= y
       IN  <<m>> \o sorted(S \ {m})

Range(q) == { q[i] : i \in 1 .. Len(q) }

\* ------------------------------------------------------------ the parser
ALL == <<"a", "l", "l">>

\* the range branch (lines 89-94): the unpacking of map(int, ...) raises
\* ValueError unless there are exactly two parts and int() takes both
parse_range(all_available_chapters, chapter_input_str) ==
  LET parts == split(chapter_input_str, "-")
  IN  IF Len(parts) # 2 \/ \E i \in 1 .. Len(parts) : int_raises(parts[i])
      THEN [chapters |-> <<>>, error |-> "Invalid range format"]
      ELSE [chapters |->
              SelectSeq(all_available_chapters,
                        LAMBDA ch : int(parts[1]) <= ch /\ ch <= int(parts[2])),
            error |-> "none"]

\* the comma-list branch without its check that the chapters exist
parse_comma_list_unchecked(all_available_chapters, chapter_input_str) ==
  LET toks == split(chapter_input_str, ",")
  IN  IF \E i \in 1 .. Len(toks) : int_raises(strip(toks[i]))
      THEN [chapters |-> <<>>, error |-> "Invalid input format"]
      ELSE [chapters |-> [i \in 1 .. Len(toks) |-> int(strip(toks[i]))],
            error |-> "none"]

\* the comma-list branch (lines 96-103)
parse_comma_list(all_available_chapters, chapter_input_str) ==
  LET toks == split(chapter_input_str, ",")
  IN  IF \E i \in 1 .. Len(toks) : int_raises(strip(toks[i]))
      THEN [chapters |-> <<>>, error |-> "Invalid input format"]
      ELSE LET selected_chapters == [i \in 1 .. Len(toks) |-> int(strip(toks[i]))]
           IN  IF \E i \in 1 .. Len(toks) :
                     selected_chapters[i] \notin Range(all_available_chapters)
               THEN [chapters |-> <<>>, error |-> "Some entered chapters do not exist"]
               ELSE [chapters |-> selected_chapters, error |-> "none"]

\* the list returned, and the st.error message shown ("none": no message)
parse_chapter_input(df, chapter_input_str) ==
  LET all_available_chapters == sorted({ Chapter[r] : r \in DOMAIN df["Attempted"] })
  IN  IF chapter_input_str = ALL
      THEN [chapters |-> all_available_chapters, error |-> "none"]
      ELSE IF \E i \in 1 .. Len(chapter_input_str) : chapter_input_str[i] = "-"
      THEN parse_range(all_available_chapters, chapter_input_str)
      ELSE parse_comma_list(all_available_chapters, chapter_input_str)

\* --------------------------------------------------------- question pools
\* df[df['Chapter'].isin(selected_chapters)]: row identities, in table order
filtered_df(df, selected_chapters) ==
  sorted({ r \in DOMAIN df["Attempted"] : Chapter[r] \in Range(selected_chapters) })

get_question_counts_streamlit(df, selected_chapters, attempted, incorrect) ==
  LET rows == Range(filtered_df(df, selected_chapters))
  IN  [ total |-> Cardinality(rows),
        incorrect_count |-> Cardinality({ idx \in rows : incorrect[idx] > 0 }),
        new_count |-> Cardinality({ idx \in rows : attempted[idx] = 0 }) ]

\* the mode filters with the comparison 'count != 0' for the incorrect pool
get_questions_for_mode_nonzero(df, selected_chapters, mode, attempted, incorrect) ==
  LET filtered == filtered_df(df, selected_chapters)
  IN  IF mode = "normal" THEN filtered
      ELSE IF mode = "incorrect"
      THEN SelectSeq(filtered, LAMBDA idx : incorrect[idx] # 0)
      ELSE SelectSeq(filtered, LAMBDA idx : attempted[idx] = 0)

get_questions_for_mode_streamlit(df, selected_chapters, mode, attempted, incorrect) ==
  LET filtered == filtered_df(df, selected_chapters)
      incorrect_q_indices == { idx \in DOMAIN incorrect : incorrect[idx] > 0 }
      new_q_indices == { idx \in DOMAIN attempted : attempted[idx] = 0 }
  IN  IF mode = "normal" THEN filtered
      ELSE IF mode = "incorrect"
      THEN SelectSeq(filtered, LAMBDA idx : idx \in incorrect_q_indices)
      ELSE SelectSeq(filtered, LAMBDA idx : idx \in new_q_indices)

\* every mode offered, whatever the counts
mode_options_all(counts) == {"normal", "incorrect", "new"}

\* the radio options of the mode_selection stage
mode_options(counts) ==
  (IF counts.total > 0 THEN {"normal"} ELSE {})
  \cup (IF counts.incorrect_count > 0 THEN {"incorrect"} ELSE {})
  \cup (IF counts.new_count > 0 THEN {"new"} ELSE {})

\* sampling with replacement: what sample(n=k, replace=True) would give
sample_with_replacement(pool, k) == [1 .. k -> Range(pool)]

\* quiz_pool_df.sample(n=k): any k distinct rows of the pool, in any order
sample(pool, k) ==
  { q \in [1 .. k -> Range(pool)] : \A i, j \in 1 .. k : q[i] = q[j] => i = j }

\* str.lower() on an answer label
lower(label) ==
  IF label = "A" THEN "a" ELSE IF label = "B" THEN "b"
  ELSE IF label = "C" THEN "c" ELSE IF label = "D" THEN "d" ELSE label

Choices == {"a", "b", "c", "d"}

\* ------------------------------------------------------------ sheet write
\* how one call of update_gsheet_cell can end: the cell is written; opening
\* the sheet fails (reported, return); worksheet.row_values(1) raises (it is
\* outside every try, the exception leaves the function); the column is not
\* in the header row (reported, return); update_cell fails (reported)
WriteOutcomes == {"ok", "open_failed", "row_values_raised", "no_column", "update_failed"}

\* the write without the header-row offset: the cell of row_index + 1
update_gsheet_cell_no_header(sheet, row_index, col_name, value, outcome) ==
  [ sheet |-> IF outcome = "ok" /\ (row_index + 1) \in DOMAIN sheet
              THEN [sheet EXCEPT ![row_index + 1][col_name] = Num(value)]
              ELSE sheet,
    raised |-> (outcome = "row_values_raised"),
    shown |-> IF outcome \in {"open_failed", "no_column", "update_failed"}
              THEN {"error: write " \o outcome} ELSE {},
    call |-> [row |-> row_index + 1, col |-> col_name,
              value |-> value, outcome |-> outcome] ]

update_gsheet_cell(sheet, row_index, col_name, value, outcome) ==
  [ sheet |-> IF outcome = "ok"
              THEN [sheet EXCEPT ![gsheet_row_number(row_index)][col_name] = Num(value)]
              ELSE sheet,
    raised |-> (outcome = "row_values_raised"),
    shown |-> IF outcome \in {"open_failed", "no_column", "update_failed"}
              THEN {"error: write " \o outcome} ELSE {},
    call |-> [row |-> gsheet_row_number(row_index), col |-> col_name,
              value |-> value, outcome |-> outcome] ]

\* ------------------------------------------------------------------ state
VARIABLES
  sheet,                    \* the Google Sheet: counter cells by sheet row
  cache,                    \* st.cache_data entry of load_data_from_gsheets
  quiz_stage,               \* st.session_state.*:
  data_df,
  selected_chapters,
  practice_mode,
  num_questions_to_ask,
  quiz_questions,           \* row identities of the sampled questions
  current_question_idx,
  correct_answers_count,
  total_questions_asked,
  attempted_counts,
  incorrect_attempt_counts,
  page,                     \* the stage whose widgets the browser shows
  page_idx,                 \* the question index the shown Submit button is keyed by
  shown,                    \* messages the last execution put on the page
  chapter_input,            \* the expression the last execution confirmed
  user_choice_key,          \* the radio value of the last Submit
  writes,                   \* update_gsheet_cell calls of the last execution
  last,                     \* how the last execution ended
  start_attempted,          \* counters when the running quiz was started
  start_incorrect,
  graded,                   \* outcomes of the completed submissions of the quiz
  quizzes,                  \* quizzes started so far
  failures                  \* sheet writes that failed so far

session == <<quiz_stage, data_df, selected_chapters, practice_mode,
             num_questions_to_ask, quiz_questions, current_question_idx,
             correct_answers_count, total_questions_asked, attempted_counts,
             incorrect_attempt_counts>>
history == <<chapter_input, user_choice_key, writes, last, start_attempted,
             start_incorrect, graded, quizzes, failures>>
vars == <<sheet, cache, session, page, page_idx, shown, history>>

Init ==
  /\ sheet \in SeedSheets
  /\ cache = Missing
  /\ quiz_stage = "unset"
  /\ data_df = Missing
  /\ selected_chapters = <<>>
  /\ practice_mode = "None"
  /\ num_questions_to_ask = 0
  /\ quiz_questions = <<>>
  /\ current_question_idx = 0
  /\ correct_answers_count = 0
  /\ total_questions_asked = 0
  /\ attempted_counts = Missing
  /\ incorrect_attempt_counts = Missing
  /\ page = "blank"
  /\ page_idx = 0
  /\ shown = {}
  /\ chapter_input = <<>>
  /\ user_choice_key = "a"
  /\ writes = <<>>
  /\ last = "init"
  /\ start_attempted = Missing
  /\ start_incorrect = Missing
  /\ graded = <<>>
  /\ quizzes = 0
  /\ failures = 0

\* ------------------------------------------------------------------- load
\* load_data_from_gsheets under @st.cache_data(ttl=600): an entry younger
\* than the ttl is returned as it is; otherwise (expired: the ttl has run
\* out since the entry was made) the sheet is read, and the read either
\* succeeds (the result is cached) or fails (st.error, st.stop)
load_data_from_gsheets(expired) ==
  IF cache # Missing /\ ~expired
  THEN { [ok |-> TRUE, df |-> cache, cache |-> cache] }
  ELSE { [ok |-> TRUE, df |-> read_df(sheet), cache |-> read_df(sheet)],
         [ok |-> FALSE, df |-> Missing, cache |-> Missing] }

\* what the script shows when it runs to its end in stage st with no button
\* pressed (the in-progress stage with the cursor at the end is handled by
\* the callers: it moves on to quiz_finished)
render_shown(st, chapters, attempted, incorrect, df) ==
  IF st = "mode_selection"
     /\ mode_options(get_question_counts_streamlit(df, chapters, attempted, incorrect)) = {}
  THEN {"warning: no questions for any mode"}
  ELSE {}

\* first execution of the script in a session (lines 65-77)
SessionStart ==
  /\ quiz_stage = "unset"
  /\ \E expired \in BOOLEAN : \E ld \in load_data_from_gsheets(expired) :
       /\ cache' = ld.cache
       /\ quiz_stage' = "chapter_selection"
       /\ IF ld.ok
          THEN /\ data_df' = ld.df
               /\ attempted_counts' = ld.df["Attempted"]
               /\ incorrect_attempt_counts' = ld.df["Incorrect attempt"]
               /\ page' = "chapter_selection"
               /\ shown' = {}
               /\ last' = "SessionStart"
          ELSE /\ UNCHANGED <<data_df, attempted_counts, incorrect_attempt_counts>>
               /\ page' = "stopped"
               /\ shown' = {"error: loading data"}
               /\ last' = "SessionStart: load failed"
  /\ selected_chapters' = <<>>
  /\ practice_mode' = "None"
  /\ num_questions_to_ask' = 0
  /\ quiz_questions' = <<>>
  /\ current_question_idx' = 0
  /\ correct_answers_count' = 0
  /\ total_questions_asked' = 0
  /\ UNCHANGED <<sheet, page_idx, chapter_input, user_choice_key, writes,
                 start_attempted, start_incorrect, graded, quizzes, failures>>

\* the script with the end of the quiz tested one question early
Rerun_one_early ==
  /\ quiz_stage # "unset"
  /\ IF quiz_stage = "quiz_in_progress"
        /\ ~(current_question_idx + 1 < total_questions_asked)
     THEN /\ quiz_stage' = "quiz_finished"
          /\ page' = "quiz_finished"
          /\ shown' = {}
          /\ UNCHANGED page_idx
     ELSE /\ UNCHANGED quiz_stage
          /\ page' = quiz_stage
          /\ page_idx' = IF quiz_stage = "quiz_in_progress"
                         THEN current_question_idx ELSE page_idx
          /\ shown' = render_shown(quiz_stage, selected_chapters, attempted_counts,
                                   incorrect_attempt_counts, data_df)
  /\ chapter_input' = <<>>
  /\ user_choice_key' = "a"
  /\ writes' = <<>>
  /\ last' = "Rerun"
  /\ UNCHANGED <<sheet, cache, data_df, selected_chapters, practice_mode,
                 num_questions_to_ask, quiz_questions, current_question_idx,
                 correct_answers_count, total_questions_asked, attempted_counts,
                 incorrect_attempt_counts, start_attempted, start_incorrect, graded, quizzes, failures>>

\* the script is executed again with no button pressed: the user presses the
\* 'Next Question' button, a button of an earlier page, or reruns the app
Rerun ==
  /\ quiz_stage # "unset"
  /\ IF quiz_stage = "quiz_in_progress"
        /\ ~(current_question_idx < total_questions_asked)
     THEN /\ quiz_stage' = "quiz_finished"
          /\ page' = "quiz_finished"
          /\ shown' = {}
          /\ UNCHANGED page_idx
     ELSE /\ UNCHANGED quiz_stage
          /\ page' = quiz_stage
          /\ page_idx' = IF quiz_stage = "quiz_in_progress"
                         THEN current_question_idx ELSE page_idx
          /\ shown' = render_shown(quiz_stage, selected_chapters, attempted_counts,
                                   incorrect_attempt_counts, data_df)
  /\ chapter_input' = <<>>
  /\ user_choice_key' = "a"
  /\ writes' = <<>>
  /\ last' = "Rerun"
  /\ UNCHANGED <<sheet, cache, data_df, selected_chapters, practice_mode,
                 num_questions_to_ask, quiz_questions, current_question_idx,
                 correct_answers_count, total_questions_asked, attempted_counts,
                 incorrect_attempt_counts, start_attempted, start_incorrect, graded, quizzes, failures>>

\* 'Confirm Chapters' with the expression s in the text input (lines 138-143).
\* Typing another expression after a rejected one executes the script once
\* with no button pressed (Rerun) before the button can be pressed again.
ConfirmChapters(s) ==
  /\ page = "chapter_selection"
  /\ last \notin {"ConfirmChapters: rejected", "ConfirmChapters: raised"}
  /\ user_choice_key' = "a"
  /\ writes' = <<>>
  /\ IF data_df = Missing
     THEN \* st.session_state.data_df raises: the key was never set
          /\ shown' = {"exception: st.session_state has no key data_df"}
          /\ chapter_input' = s
          /\ last' = "ConfirmChapters: raised"
          /\ UNCHANGED <<quiz_stage, selected_chapters, page>>
     ELSE LET selected_chs == parse_chapter_input(data_df, s)
          IN  IF selected_chs.chapters # <<>>
              THEN /\ selected_chapters' = selected_chs.chapters
                   /\ quiz_stage' = "mode_selection"
                   /\ page' = "mode_selection"
                   /\ shown' = render_shown("mode_selection", selected_chs.chapters,
                                            attempted_counts, incorrect_attempt_counts,
                                            data_df)
                   /\ chapter_input' = s
                   /\ last' = "ConfirmChapters: accepted"
              ELSE /\ shown' = IF selected_chs.error = "none" THEN {}
                               ELSE {selected_chs.error}
                   /\ chapter_input' = s
                   /\ last' = "ConfirmChapters: rejected"
                   /\ UNCHANGED <<quiz_stage, selected_chapters, page>>
  /\ UNCHANGED <<sheet, cache, data_df, practice_mode, num_questions_to_ask,
                 quiz_questions, current_question_idx, correct_answers_count,
                 total_questions_asked, attempted_counts, incorrect_attempt_counts,
                 page_idx, start_attempted, start_incorrect, graded, quizzes, failures>>

\* 'Select Mode' with radio option mode (lines 176-183)
SelectMode(mode) ==
  /\ page = "mode_selection"
  /\ mode \in mode_options(get_question_counts_streamlit(data_df, selected_chapters,
                             attempted_counts, incorrect_attempt_counts))
  /\ practice_mode' = mode
  /\ quiz_stage' = "num_questions_selection"
  /\ page' = "num_questions_selection"
  /\ shown' = {}
  /\ chapter_input' = <<>>
  /\ user_choice_key' = "a"
  /\ writes' = <<>>
  /\ last' = "SelectMode"
  /\ UNCHANGED <<sheet, cache, data_df, selected_chapters, num_questions_to_ask,
                 quiz_questions, current_question_idx, correct_answers_count,
                 total_questions_asked, attempted_counts, incorrect_attempt_counts,
                 page_idx, start_attempted, start_incorrect, graded, quizzes, failures>>

\* the value of quiz_questions after 'Start Quiz' (line 215)
pick_questions(quiz_pool_df, num_questions) ==
  IF num_questions < Len(quiz_pool_df)
  THEN sample(quiz_pool_df, num_questions)
  ELSE {quiz_pool_df}

\* 'Start Quiz' with num_questions in the number input (lines 188-220); the
\* number input only yields integers from 1 to the pool size
StartQuiz(num_questions) ==
  /\ page = "num_questions_selection"
  /\ quizzes < MaxQuizzes
  /\ quizzes' = quizzes + 1
  /\ UNCHANGED failures
  /\ LET quiz_pool_df == get_questions_for_mode_streamlit(data_df, selected_chapters,
                           practice_mode, attempted_counts, incorrect_attempt_counts)
         max_questions_available == Len(quiz_pool_df)
     IN  /\ max_questions_available # 0
         /\ num_questions \in 1 .. max_questions_available
         /\ num_questions_to_ask' = num_questions
         /\ \E q \in pick_questions(quiz_pool_df, num_questions) :
              /\ quiz_questions' = q
              /\ total_questions_asked' = Len(q)
  /\ current_question_idx' = 0
  /\ correct_answers_count' = 0
  /\ quiz_stage' = "quiz_in_progress"
  /\ page' = "quiz_in_progress"
  /\ page_idx' = 0
  /\ shown' = {}
  /\ chapter_input' = <<>>
  /\ user_choice_key' = "a"
  /\ writes' = <<>>
  /\ last' = "StartQuiz"
  /\ start_attempted' = attempted_counts
  /\ start_incorrect' = incorrect_attempt_counts
  /\ graded' = <<>>
  /\ UNCHANGED <<sheet, cache, data_df, selected_chapters, practice_mode,
                 attempted_counts, incorrect_attempt_counts>>

\* 'Submit Answer' that writes the reset of a correct answer only when the
\* incorrect counter was not 0 before
SubmitAnswer_write_if_nonzero(choice, o1, o2) ==
  /\ page = "quiz_in_progress"
  /\ quiz_stage = "quiz_in_progress"
  /\ page_idx = current_question_idx
  /\ current_question_idx < total_questions_asked
  /\ LET original_df_index == quiz_questions[current_question_idx + 1]
         correct_answer_key == lower(CorrectAnswer[original_df_index])
         attempted == [attempted_counts EXCEPT ![original_df_index] = @ + 1]
         w1 == update_gsheet_cell(sheet, original_df_index, "Attempted",
                                  attempted[original_df_index], o1)
         is_correct == (choice = correct_answer_key)
         incorrect == IF is_correct
                      THEN [incorrect_attempt_counts EXCEPT ![original_df_index] = 0]
                      ELSE [incorrect_attempt_counts EXCEPT ![original_df_index] = @ + 1]
         w2 == update_gsheet_cell(w1.sheet, original_df_index, "Incorrect attempt",
                                  incorrect[original_df_index], o2)
         feedback == IF is_correct THEN {"success: Correct!"}
                     ELSE {"error: Incorrect", "warning: Reason"}
         skip == is_correct /\ incorrect_attempt_counts[original_df_index] = 0
         failed == (IF o1 = "ok" THEN 0 ELSE 1)
                   + (IF o2 = "ok" \/ w1.raised THEN 0 ELSE 1)
     IN  /\ skip => o2 = "ok"
         /\ failures + failed <= MaxFailures
         /\ failures' = failures + failed
         /\ user_choice_key' = choice
         /\ attempted_counts' = attempted
         /\ IF w1.raised
            THEN /\ o2 = "ok"
                 /\ sheet' = w1.sheet
                 /\ writes' = <<w1.call>>
                 /\ shown' = {"exception: row_values"}
                 /\ last' = "SubmitAnswer: raised in first write"
                 /\ UNCHANGED <<correct_answers_count, incorrect_attempt_counts,
                                current_question_idx, graded>>
            ELSE /\ correct_answers_count' =
                      IF is_correct THEN correct_answers_count + 1
                      ELSE correct_answers_count
                 /\ incorrect_attempt_counts' = incorrect
                 /\ sheet' = IF skip THEN w1.sheet ELSE w2.sheet
                 /\ writes' = IF skip THEN <<w1.call>> ELSE <<w1.call, w2.call>>
                 /\ IF w2.raised
                    THEN /\ shown' = w1.shown \cup feedback \cup {"exception: row_values"}
                         /\ last' = "SubmitAnswer: raised in second write"
                         /\ UNCHANGED <<current_question_idx, graded>>
                    ELSE /\ shown' = w1.shown \cup feedback \cup w2.shown
                         /\ current_question_idx' = current_question_idx + 1
                         /\ graded' = Append(graded, is_correct)
                         /\ last' = "SubmitAnswer"
  /\ chapter_input' = <<>>
  /\ UNCHANGED <<cache, quiz_stage, data_df, selected_chapters, practice_mode,
                 num_questions_to_ask, quiz_questions, total_questions_asked,
                 page, page_idx, start_attempted, start_incorrect, quizzes>>

\* 'Submit Answer' on the question at the cursor with radio value choice;
\* o1 and o2 are how the two sheet writes end (lines 255-277).  An exception
\* that leaves update_gsheet_cell ends the execution where it is raised.
SubmitAnswer(choice, o1, o2) ==
  /\ page = "quiz_in_progress"
  /\ quiz_stage = "quiz_in_progress"
  /\ page_idx = current_question_idx
  /\ current_question_idx < total_questions_asked
  /\ LET original_df_index == quiz_questions[current_question_idx + 1]
         correct_answer_key == lower(CorrectAnswer[original_df_index])
         attempted == [attempted_counts EXCEPT ![original_df_index] = @ + 1]
         w1 == update_gsheet_cell(sheet, original_df_index, "Attempted",
                                  attempted[original_df_index], o1)
         is_correct == (choice = correct_answer_key)
         incorrect == IF is_correct
                      THEN [incorrect_attempt_counts EXCEPT ![original_df_index] = 0]
                      ELSE [incorrect_attempt_counts EXCEPT ![original_df_index] = @ + 1]
         w2 == update_gsheet_cell(w1.sheet, original_df_index, "Incorrect attempt",
                                  incorrect[original_df_index], o2)
         feedback == IF is_correct THEN {"success: Correct!"}
                     ELSE {"error: Incorrect", "warning: Reason"}
         failed == (IF o1 = "ok" THEN 0 ELSE 1)
                   + (IF o2 = "ok" \/ w1.raised THEN 0 ELSE 1)
     IN  /\ failures + failed <= MaxFailures
         /\ failures' = failures + failed
         /\ user_choice_key' = choice
         /\ attempted_counts' = attempted
         /\ IF w1.raised
            THEN /\ o2 = "ok"
                 /\ sheet' = w1.sheet
                 /\ writes' = <<w1.call>>
                 /\ shown' = {"exception: row_values"}
                 /\ last' = "SubmitAnswer: raised in first write"
                 /\ UNCHANGED <<correct_answers_count, incorrect_attempt_counts,
                                current_question_idx, graded>>
            ELSE /\ correct_answers_count' =
                      IF is_correct THEN correct_answers_count + 1
                      ELSE correct_answers_count
                 /\ incorrect_attempt_counts' = incorrect
                 /\ sheet' = w2.sheet
                 /\ writes' = <<w1.call, w2.call>>
                 /\ IF w2.raised
                    THEN /\ shown' = w1.shown \cup feedback \cup {"exception: row_values"}
                         /\ last' = "SubmitAnswer: raised in second write"
                         /\ UNCHANGED <<current_question_idx, graded>>
                    ELSE /\ shown' = w1.shown \cup feedback \cup w2.shown
                         /\ current_question_idx' = current_question_idx + 1
                         /\ graded' = Append(graded, is_correct)
                         /\ last' = "SubmitAnswer"
  /\ chapter_input' = <<>>
  /\ UNCHANGED <<cache, quiz_stage, data_df, selected_chapters, practice_mode,
                 num_questions_to_ask, quiz_questions, total_questions_asked,
                 page, page_idx, start_attempted, start_incorrect, quizzes>>

\* 'Start New Quiz' that leaves the score of the finished quiz in place
StartNewQuiz_keeps_score ==
  /\ page = "quiz_finished"
  /\ \E expired \in BOOLEAN : \E ld \in load_data_from_gsheets(expired) :
       /\ cache' = ld.cache
       /\ IF ld.ok
          THEN /\ data_df' = ld.df
               /\ attempted_counts' = ld.df["Attempted"]
               /\ incorrect_attempt_counts' = ld.df["Incorrect attempt"]
               /\ quiz_stage' = "chapter_selection"
               /\ selected_chapters' = <<>>
               /\ practice_mode' = "None"
               /\ num_questions_to_ask' = 0
               /\ quiz_questions' = <<>>
               /\ current_question_idx' = 0
               /\ UNCHANGED correct_answers_count
               /\ total_questions_asked' = 0
               /\ page' = "chapter_selection"
               /\ shown' = {}
               /\ last' = "StartNewQuiz"
               /\ start_attempted' = Missing
               /\ start_incorrect' = Missing
               /\ graded' = <<>>
          ELSE /\ shown' = {"error: loading data"}
               /\ last' = "StartNewQuiz: load failed"
               /\ UNCHANGED <<session, page, start_attempted, start_incorrect, graded>>
  /\ chapter_input' = <<>>
  /\ user_choice_key' = "a"
  /\ writes' = <<>>
  /\ UNCHANGED <<sheet, page_idx, quizzes, failures>>

\* 'Start New Quiz' that sets the stage before the load, as lines 66-67 do
StartNewQuiz_stage_first ==
  /\ page = "quiz_finished"
  /\ \E expired \in BOOLEAN : \E ld \in load_data_from_gsheets(expired) :
       /\ cache' = ld.cache
       /\ IF ld.ok
          THEN /\ data_df' = ld.df
               /\ attempted_counts' = ld.df["Attempted"]
               /\ incorrect_attempt_counts' = ld.df["Incorrect attempt"]
               /\ quiz_stage' = "chapter_selection"
               /\ selected_chapters' = <<>>
               /\ practice_mode' = "None"
               /\ num_questions_to_ask' = 0
               /\ quiz_questions' = <<>>
               /\ current_question_idx' = 0
               /\ correct_answers_count' = 0
               /\ total_questions_asked' = 0
               /\ page' = "chapter_selection"
               /\ shown' = {}
               /\ last' = "StartNewQuiz"
               /\ start_attempted' = Missing
               /\ start_incorrect' = Missing
               /\ graded' = <<>>
          ELSE /\ shown' = {"error: loading data"}
               /\ last' = "StartNewQuiz: load failed"
               /\ quiz_stage' = "chapter_selection"
               /\ UNCHANGED <<data_df, selected_chapters, practice_mode,
                              num_questions_to_ask, quiz_questions,
                              current_question_idx, correct_answers_count,
                              total_questions_asked, attempted_counts,
                              incorrect_attempt_counts, page, start_attempted,
                              start_incorrect, graded>>
  /\ chapter_input' = <<>>
  /\ user_choice_key' = "a"
  /\ writes' = <<>>
  /\ UNCHANGED <<sheet, page_idx, quizzes, failures>>

\* 'Start New Quiz' on the finished page (lines 304-319)
StartNewQuiz ==
  /\ page = "quiz_finished"
  /\ \E expired \in BOOLEAN : \E ld \in load_data_from_gsheets(expired) :
       /\ cache' = ld.cache
       /\ IF ld.ok
          THEN /\ data_df' = ld.df
               /\ attempted_counts' = ld.df["Attempted"]
               /\ incorrect_attempt_counts' = ld.df["Incorrect attempt"]
               /\ quiz_stage' = "chapter_selection"
               /\ selected_chapters' = <<>>
               /\ practice_mode' = "None"
               /\ num_questions_to_ask' = 0
               /\ quiz_questions' = <<>>
               /\ current_question_idx' = 0
               /\ correct_answers_count' = 0
               /\ total_questions_asked' = 0
               /\ page' = "chapter_selection"
               /\ shown' = {}
               /\ last' = "StartNewQuiz"
               /\ start_attempted' = Missing
               /\ start_incorrect' = Missing
               /\ graded' = <<>>
          ELSE /\ shown' = {"error: loading data"}
               /\ last' = "StartNewQuiz: load failed"
               /\ UNCHANGED <<session, page, start_attempted, start_incorrect, graded>>
  /\ chapter_input' = <<>>
  /\ user_choice_key' = "a"
  /\ writes' = <<>>
  /\ UNCHANGED <<sheet, page_idx, quizzes, failures>>

\* Not actions of their own: 'Go back to Chapter Selection' (lines 170-174)
\* is rendered only when mode_options is empty, 'Go back to Mode Selection'
\* (lines 197-201) only when the pool of the chosen mode is empty, and the
\* st.error of line 222 runs only for a number outside 1 .. pool size, which
\* st.number_input never yields.
Next ==
  \/ SessionStart
  \/ Rerun
  \/ \E s \in Inputs : ConfirmChapters(s)
  \/ \E mode \in {"normal", "incorrect", "new"} : SelectMode(mode)
  \/ \E num_questions \in 1 .. NumRows : StartQuiz(num_questions)
  \/ \E choice \in Choices, o1, o2 \in WriteOutcomes : SubmitAnswer(choice, o1, o2)
  \/ StartNewQuiz

Spec == Init /\ [][Next]_vars

\* ============================================================ properties
\* vocabulary of the properties: the grammar of chapter expressions
HasChar(s, c) == \E i \in 1 .. Len(s) : s[i] = c
TableChapters == { Chapter[r] : r \in Rows }
AllInts(toks) == \A i \in 1 .. Len(toks) : ~int_raises(toks[i])
IsRangeExpr(s) ==
  s # ALL /\ HasChar(s, "-") /\ Len(split(s, "-")) = 2 /\ AllInts(split(s, "-"))
IsListExpr(s) ==
  /\ s # ALL
  /\ ~HasChar(s, "-")
  /\ AllInts(split(s, ","))
  /\ \A i \in 1 .. Len(split(s, ",")) : int(split(s, ",")[i]) \in TableChapters
ValidExpr(s) == s = ALL \/ IsRangeExpr(s) \/ IsListExpr(s)
RangeMatches(s) ==
  { ch \in TableChapters : int(split(s, "-")[1]) <= ch /\ ch <= int(split(s, "-")[2]) }
NoDuplicates(q) == \A i, j \in 1 .. Len(q) : q[i] = q[j] => i = j

ConfirmEnded == {"ConfirmChapters: accepted", "ConfirmChapters: rejected",
                 "ConfirmChapters: raised"}
SubmitEnded == {"SubmitAnswer", "SubmitAnswer: raised in first write",
                "SubmitAnswer: raised in second write"}
SubmitGraded == {"SubmitAnswer", "SubmitAnswer: raised in second write"}

\* C1: after 'Start New Quiz' the table and both counter dictionaries in
\* memory equal what the sheet holds at that moment.
C1_RestartRefetches ==
  last = "StartNewQuiz" =>
    /\ data_df = read_df(sheet)
    /\ attempted_counts = read_df(sheet)["Attempted"]
    /\ incorrect_attempt_counts = read_df(sheet)["Incorrect attempt"]

\* C2: grading one submission: the correct label raises the score by one
\* and leaves the incorrect counter at 0, never above its old value; any
\* other label leaves the score and raises the incorrect counter by one.
C2_Grading ==
  [][last' \in SubmitGraded =>
       LET q == quiz_questions[current_question_idx + 1]
       IN  IF user_choice_key' = lower(CorrectAnswer[q])
           THEN /\ correct_answers_count' = correct_answers_count + 1
                /\ incorrect_attempt_counts'[q] = 0
                /\ incorrect_attempt_counts'[q] <= incorrect_attempt_counts[q]
           ELSE /\ correct_answers_count' = correct_answers_count
                /\ incorrect_attempt_counts'[q] = incorrect_attempt_counts[q] + 1]_vars

\* C3: a submission with a failed sheet write still completes: the failure
\* is reported, the attempted counter goes up once, the answer is graded
\* and the cursor advances by one; so the question under the cursor has
\* never been counted by this quiz before.
C3_FailedWriteNonFatal ==
  /\ [][(last' \in SubmitEnded
           /\ \E i \in 1 .. Len(writes') : writes'[i].outcome # "ok") =>
          LET q == quiz_questions[current_question_idx + 1]
          IN  /\ shown' # {}
              /\ attempted_counts'[q] = attempted_counts[q] + 1
              /\ Len(graded') = Len(graded) + 1
              /\ current_question_idx' = current_question_idx + 1]_vars
  /\ [](quiz_stage = "quiz_in_progress"
          /\ current_question_idx < total_questions_asked =>
            LET q == quiz_questions[current_question_idx + 1]
            IN  attempted_counts[q] = start_attempted[q])

\* C4: for a valid expression the parser returns chapters of the table,
\* none of them twice, and returns the empty list only for a valid range
\* that no chapter of the table lies in.
C4_ParsedChapters ==
  /\ last = "ConfirmChapters: accepted" =>
       /\ Range(selected_chapters) \subseteq TableChapters
       /\ NoDuplicates(selected_chapters)
  /\ (last = "ConfirmChapters: rejected" /\ ValidExpr(chapter_input)) =>
       /\ IsRangeExpr(chapter_input)
       /\ RangeMatches(chapter_input) = {}

\* C5: a Confirm that does not advance to mode_selection shows a message.
C5_RejectionShown ==
  last \in {"ConfirmChapters: rejected", "ConfirmChapters: raised"} => shown # {}

\* C6: confirming an invalid expression stays in chapter_selection, shows
\* an error, changes neither the selected chapters nor the counters, the
\* score or the cursor, and writes nothing to the sheet.
C6_InvalidInputRejected ==
  [][(last' \in ConfirmEnded /\ ~ValidExpr(chapter_input')) =>
       /\ last' # "ConfirmChapters: accepted"
       /\ quiz_stage' = "chapter_selection"
       /\ page' = "chapter_selection"
       /\ shown' # {}
       /\ writes' = <<>>
       /\ UNCHANGED <<selected_chapters, attempted_counts, incorrect_attempt_counts,
                      correct_answers_count, current_question_idx, sheet>>]_vars

C6_Witness ==
  /\ last = "ConfirmChapters: rejected"
  /\ chapter_input = <<"1", ",", "a">>
  /\ shown = {"Invalid input format"}
  /\ \E r \in Rows : attempted_counts[r] > 0

\* C7: the normal pool is the rows of the selected chapters, in table
\* order; the new pool is its rows never attempted; the incorrect pool is
\* its rows with an incorrect counter above 0.
PoolOf(mode) ==
  get_questions_for_mode_streamlit(data_df, selected_chapters, mode,
                                   attempted_counts, incorrect_attempt_counts)

C7_Pools ==
  data_df # Missing =>
    /\ Range(PoolOf("normal")) = { r \in Rows : Chapter[r] \in Range(selected_chapters) }
    /\ \A i, j \in 1 .. Len(PoolOf("normal")) :
         i < j => PoolOf("normal")[i] < PoolOf("normal")[j]
    /\ PoolOf("new") =
         SelectSeq(PoolOf("normal"), LAMBDA r : attempted_counts[r] = 0)
    /\ PoolOf("incorrect") =
         SelectSeq(PoolOf("normal"), LAMBDA r : incorrect_attempt_counts[r] > 0)

C7_Witness ==
  /\ page = "num_questions_selection"
  /\ practice_mode = "incorrect"
  /\ Len(PoolOf("normal")) = NumRows
  /\ Len(PoolOf("incorrect")) \in 1 .. (NumRows - 1)
  /\ Len(PoolOf("new")) \in 1 .. (NumRows - 1)
  /\ \E r \in Rows : incorrect_attempt_counts[r] < 0

\* C8: a quiz started with N questions on a pool of M holds N distinct rows
\* of the pool, and the whole pool in pool order when N = M.
C8_Sample ==
  last = "StartQuiz" =>
    LET pool == PoolOf(practice_mode)
        N == num_questions_to_ask
    IN  /\ 1 <= N /\ N <= Len(pool)
        /\ Len(quiz_questions) = N
        /\ total_questions_asked = N
        /\ NoDuplicates(quiz_questions)
        /\ Range(quiz_questions) \subseteq Range(pool)
        /\ N = Len(pool) => quiz_questions = pool

C8_Witness ==
  /\ last = "StartQuiz"
  /\ num_questions_to_ask = 2
  /\ Len(PoolOf(practice_mode)) = 3
  /\ quiz_questions[1] > quiz_questions[2]

\* C9: when the quiz is finished, every sampled question was attempted
\* once more than at the start and no other question changed; the
\* incorrect counter is 0 where the answer was right, one more than at the
\* start where it was wrong; the score is the number of right answers and
\* the total is the number of questions asked for.
C9_FinalCounters ==
  quiz_stage = "quiz_finished" =>
    /\ total_questions_asked = num_questions_to_ask
    /\ Len(graded) = num_questions_to_ask
    /\ correct_answers_count = Cardinality({ i \in 1 .. Len(graded) : graded[i] })
    /\ \A r \in Rows :
         IF r \in Range(quiz_questions)
         THEN attempted_counts[r] = start_attempted[r] + 1
         ELSE /\ attempted_counts[r] = start_attempted[r]
              /\ incorrect_attempt_counts[r] = start_incorrect[r]
    /\ \A i \in 1 .. Len(graded) :
         incorrect_attempt_counts[quiz_questions[i]] =
           IF graded[i] THEN 0 ELSE start_incorrect[quiz_questions[i]] + 1

\* C10: no stage is on the page while the question table or a counter
\* dictionary was never loaded.
C10_NoStageWithoutTable ==
  page \in {"chapter_selection", "mode_selection", "num_questions_selection",
            "quiz_in_progress", "quiz_finished"} =>
    /\ data_df # Missing
    /\ attempted_counts # Missing
    /\ incorrect_attempt_counts # Missing

\* C11: every counter in memory is an integer >= 0, whatever the sheet held
\* when it was loaded.
C11_CountersNonNegative ==
  attempted_counts # Missing =>
    \A r \in Rows :
      /\ attempted_counts[r] \in Nat
      /\ incorrect_attempt_counts[r] \in Nat

\* C12: while no sheet write has failed, a completed submission leaves the
\* Attempted and Incorrect attempt cells of sheet row (row identity + 2)
\* equal to the counters of the graded question in memory, and writes no
\* cell of another row.
C12_WritesMirrorCounters ==
  [][(last' = "SubmitAnswer" /\ failures' = 0) =>
       LET q == quiz_questions[current_question_idx + 1]
       IN  /\ sheet'[q + 2]["Attempted"] = Num(attempted_counts'[q])
           /\ sheet'[q + 2]["Incorrect attempt"] = Num(incorrect_attempt_counts'[q])
           /\ \A i \in 1 .. Len(writes') : writes'[i].row = q + 2
           /\ \A n \in DOMAIN sheet : n # q + 2 => sheet'[n] = sheet[n]]_vars

C12_Witness ==
  /\ last = "SubmitAnswer"
  /\ failures = 0
  /\ Len(writes) = 2
  /\ current_question_idx = 2
  /\ LET q == quiz_questions[current_question_idx]
     IN  /\ q = 2
         /\ sheet[4]["Attempted"] = Num(attempted_counts[q])
         /\ sheet[4]["Incorrect attempt"] = Num(incorrect_attempt_counts[q])
         /\ attempted_counts[q] = start_attempted[q] + 1

\* C13: after a successful 'Start New Quiz' the stage is chapter_selection
\* and the quiz state of the session is at its initial value: no chapters
\* selected, no mode, requested count 0, empty question sequence, cursor 0,
\* score 0, total asked 0.
C13_RestartClearsQuizState ==
  last = "StartNewQuiz" =>
    /\ quiz_stage = "chapter_selection"
    /\ selected_chapters = <<>>
    /\ practice_mode = "None"
    /\ num_questions_to_ask = 0
    /\ quiz_questions = <<>>
    /\ current_question_idx = 0
    /\ correct_answers_count = 0
    /\ total_questions_asked = 0

\* a restart after a quiz in which an answer was graded: some row shows one
\* attempt more in the reloaded table than the seed sheet could hold
C13_Witness ==
  /\ last = "StartNewQuiz"
  /\ quizzes = 1
  /\ correct_answers_count = 0
  /\ \E r \in Rows : attempted_counts[r] = 2

\* C15: on the mode_selection stage the offered modes are exactly the modes
\* whose pool for the selected chapters is non-empty, 'normal' is among
\* them, and on the num_questions_selection stage the pool of the chosen
\* mode holds at least one question.
C15_OfferedModes ==
  LET offered == mode_options(get_question_counts_streamlit(
                     data_df, selected_chapters, attempted_counts,
                     incorrect_attempt_counts))
  IN  /\ quiz_stage = "mode_selection" =>
           /\ "normal" \in offered
           /\ offered = { m \in {"normal", "incorrect", "new"} : Len(PoolOf(m)) > 0 }
      /\ quiz_stage = "num_questions_selection" =>
           /\ practice_mode \in offered
           /\ Len(PoolOf(practice_mode)) >= 1

\* the count stage entered with a mode that was not offered for every table:
\* the 'incorrect' pool of the selected chapters is a proper part of their rows
C15_Witness ==
  /\ quiz_stage = "num_questions_selection"
  /\ practice_mode = "incorrect"
  /\ Len(PoolOf("incorrect")) >= 1
  /\ Len(PoolOf("incorrect")) < Len(PoolOf("normal"))

\* C16: once set, the stage changes only chapter_selection -> mode_selection
\* (chapters parsed, not empty), mode_selection -> num_questions_selection
\* (mode picked), mode_selection -> chapter_selection (no mode available),
\* num_questions_selection -> quiz_in_progress (count confirmed),
\* num_questions_selection -> mode_selection (empty pool), quiz_in_progress
\* -> quiz_finished (cursor at the end), quiz_finished -> chapter_selection
\* (restart).
C16_StageTransitions ==
  [][(quiz_stage # "unset" /\ quiz_stage' # quiz_stage) =>
       \/ /\ quiz_stage = "chapter_selection" /\ quiz_stage' = "mode_selection"
          /\ selected_chapters' # <<>>
          /\ last' = "ConfirmChapters: accepted"
       \/ /\ quiz_stage = "mode_selection" /\ quiz_stage' = "num_questions_selection"
          /\ practice_mode' \in {"normal", "incorrect", "new"}
          /\ last' = "SelectMode"
       \/ /\ quiz_stage = "mode_selection" /\ quiz_stage' = "chapter_selection"
          /\ \A m \in {"normal", "incorrect", "new"} : Len(PoolOf(m)) = 0
       \/ /\ quiz_stage = "num_questions_selection" /\ quiz_stage' = "quiz_in_progress"
          /\ num_questions_to_ask' \in 1 .. Len(PoolOf(practice_mode))
          /\ last' = "StartQuiz"
       \/ /\ quiz_stage = "num_questions_selection" /\ quiz_stage' = "mode_selection"
          /\ Len(PoolOf(practice_mode)) = 0
       \/ /\ quiz_stage = "quiz_in_progress" /\ quiz_stage' = "quiz_finished"
          /\ current_question_idx = total_questions_asked
          /\ UNCHANGED current_question_idx
       \/ /\ quiz_stage = "quiz_finished" /\ quiz_stage' = "chapter_selection"
          /\ last' = "StartNewQuiz"]_vars

\* the whole cycle walked: a quiz of two questions finished and restarted
C16_Witness ==
  /\ quiz_stage = "chapter_selection"
  /\ last = "StartNewQuiz"
  /\ quizzes = 1
  /\ selected_chapters = <<>>
  /\ \E r \in Rows : incorrect_attempt_counts[r] = 2

\* C20: a failed table load on 'Start New Quiz' leaves the session as it
\* was: the stage stays quiz_finished and the table, the counters, the
\* score, the cursor and the selections keep their values.
C20_FailedRestartKeepsSession ==
  [][last' = "StartNewQuiz: load failed" =>
       /\ quiz_stage = "quiz_finished"
       /\ quiz_stage' = "quiz_finished"
       /\ UNCHANGED <<data_df, attempted_counts, incorrect_attempt_counts,
                      correct_answers_count, current_question_idx,
                      total_questions_asked, selected_chapters, practice_mode,
                      num_questions_to_ask, quiz_questions>>]_vars

C20_Witness ==
  /\ last = "StartNewQuiz: load failed"
  /\ quiz_stage = "quiz_finished"
  /\ correct_answers_count >= 1
  /\ current_question_idx = total_questions_asked
  /\ "error: loading data" \in shown

\* presses of 'Submit Answer' in the current quiz: line 259 adds one to the
\* Attempted counter of the question on every press
RECURSIVE SumTo(_, _)
SumTo(f, n) == IF n < 0 THEN 0 ELSE f[n] + SumTo(f, n - 1)

Submissions ==
  SumTo(attempted_counts, NumRows - 1) - SumTo(start_attempted, NumRows - 1)

\* C14: a quiz started with N questions becomes finished after exactly N
\* presses of 'Submit Answer', never earlier, and the cursor moves only by
\* one, in a submission that grades the question at the cursor.
C14_FinishedAfterNSubmissions ==
  [][/\ (quiz_stage = "quiz_in_progress" /\ quiz_stage' = "quiz_finished") =>
          Submissions = num_questions_to_ask
     /\ (quiz_stage = "quiz_in_progress" /\ quiz_stage' = "quiz_in_progress") =>
          Submissions' <= num_questions_to_ask
     /\ current_question_idx' > current_question_idx =>
          /\ last' = "SubmitAnswer"
          /\ current_question_idx' = current_question_idx + 1
          /\ Len(writes') = 2
          /\ writes'[1].row = quiz_questions[current_question_idx + 1] + 2]_vars

\* the pool of the chosen mode when the quiz was started
StartPool ==
  get_questions_for_mode_streamlit(data_df, selected_chapters, practice_mode,
                                   start_attempted, start_incorrect)

\* C19: 0 <= score <= cursor <= total asked <= size of the pool the quiz
\* was started from, and during and after a quiz the cursor is the number
\* of graded submissions: the score plus the wrong answers.
C19_ScoreCursorTotal ==
  /\ 0 <= correct_answers_count
  /\ correct_answers_count <= current_question_idx
  /\ current_question_idx <= total_questions_asked
  /\ quiz_stage \in {"quiz_in_progress", "quiz_finished"} =>
       /\ total_questions_asked <= Len(StartPool)
       /\ current_question_idx = Len(graded)
       /\ correct_answers_count = Len(SelectSeq(graded, LAMBDA g : g))

\* C17 as stated: on a correct answer the incorrect counter is reset and the
\* 'Incorrect attempt' write is issued only if the counter was not 0 before;
\* with the counter at 0 only the 'Attempted' write is issued.
C17_ResetWrittenOnlyIfNonZero ==
  [][(last' \in SubmitGraded
        /\ user_choice_key' = lower(CorrectAnswer[quiz_questions[current_question_idx + 1]])) =>
       LET q == quiz_questions[current_question_idx + 1]
       IN  /\ incorrect_attempt_counts'[q] = 0
           /\ IF incorrect_attempt_counts[q] # 0
              THEN \E i \in 1 .. Len(writes') : writes'[i].col = "Incorrect attempt"
              ELSE \A i \in 1 .. Len(writes') : writes'[i].col = "Attempted"]_vars

\* C17: on every graded correct answer the incorrect counter of the question
\* becomes 0 and, after the 'Attempted' write, a write of 0 to the
\* 'Incorrect attempt' cell of the question is issued, whether or not the
\* counter was 0 before.
C17_ResetAlwaysWritten ==
  [][(last' \in SubmitGraded
        /\ user_choice_key' = lower(CorrectAnswer[quiz_questions[current_question_idx + 1]])) =>
       LET q == quiz_questions[current_question_idx + 1]
       IN  /\ incorrect_attempt_counts'[q] = 0
           /\ Len(writes') = 2
           /\ writes'[1].col = "Attempted"
           /\ writes'[2].col = "Incorrect attempt"
           /\ writes'[2].row = q + 2
           /\ writes'[2].value = 0]_vars

\* a correct answer on a question whose incorrect counter was 0 when the
\* quiz started, with both writes issued
C17_Witness ==
  /\ last = "SubmitAnswer"
  /\ failures = 0
  /\ current_question_idx >= 1
  /\ LET q == quiz_questions[current_question_idx]
     IN  /\ user_choice_key = lower(CorrectAnswer[q])
         /\ start_incorrect[q] = 0
         /\ attempted_counts[q] = start_attempted[q] + 1
         /\ Len(writes) = 2
         /\ writes[2] = [row |-> q + 2, col |-> "Incorrect attempt",
                         value |-> 0, outcome |-> "ok"]

\* ------------------------------------------------ the score of a finished quiz
MaxTotal == 10      \* largest score and total drawn for the finished page

\* lines 287-290: 0 for an empty quiz, else (correct / total) * 100, kept
\* as the exact fraction num / den
percentage(correct, total) ==
  IF total = 0 THEN [num |-> 0, den |-> 1]
  ELSE [num |-> correct * 100, den |-> total]

\* percentage >= k
at_least(p, k) == p.num >= k * p.den

\* the colour chosen with > in the place of >=
color_style_strict(p) ==
  IF p.num > 80 * p.den THEN "color:darkgreen; font-weight:bold;"
  ELSE IF p.num > 70 * p.den THEN "color:darkorange; font-weight:bold;"
  ELSE "color:red; font-weight:bold;"

\* lines 295-300
color_style(p) ==
  IF at_least(p, 80) THEN "color:darkgreen; font-weight:bold;"
  ELSE IF at_least(p, 70) THEN "color:darkorange; font-weight:bold;"
  ELSE "color:red; font-weight:bold;"

\* a session on the quiz_finished stage with any score and any total
BandInit ==
  /\ sheet \in SeedSheets
  /\ cache = read_df(sheet)
  /\ quiz_stage = "quiz_finished"
  /\ data_df = read_df(sheet)
  /\ selected_chapters = <<1>>
  /\ practice_mode = "normal"
  /\ total_questions_asked \in 0 .. MaxTotal
  /\ correct_answers_count \in 0 .. MaxTotal
  /\ num_questions_to_ask = total_questions_asked
  /\ quiz_questions = <<>>
  /\ current_question_idx = total_questions_asked
  /\ attempted_counts = read_df(sheet)["Attempted"]
  /\ incorrect_attempt_counts = read_df(sheet)["Incorrect attempt"]
  /\ page = "blank"
  /\ page_idx = 0
  /\ shown = {}
  /\ chapter_input = <<>>
  /\ user_choice_key = "a"
  /\ writes = <<>>
  /\ last = "init"
  /\ start_attempted = attempted_counts
  /\ start_incorrect = incorrect_attempt_counts
  /\ graded = <<>>
  /\ quizzes = 1
  /\ failures = 0

\* the finished page is rendered (lines 283-302): the heading in its colour
ShowScore ==
  /\ quiz_stage = "quiz_finished"
  /\ page = "blank"
  /\ page' = "quiz_finished"
  /\ shown' = { color_style(percentage(correct_answers_count,
                                       total_questions_asked)) }
  /\ last' = "ShowScore"
  /\ UNCHANGED <<sheet, cache, session, page_idx, chapter_input,
                 user_choice_key, writes, start_attempted, start_incorrect,
                 graded, quizzes, failures>>

BandNext == ShowScore

BandSpec == BandInit /\ [][BandNext]_vars

\* C18: on the finished page with score c of total t >= 1 the heading is
\* dark green iff 100 * c >= 80 * t, dark orange iff 70 * t <= 100 * c <
\* 80 * t, and red otherwise; with t = 0 the percentage is 0 and the
\* heading is red.
C18_ScoreBands ==
  last = "ShowScore" =>
    LET c == correct_answers_count
        t == total_questions_asked
        high == "color:darkgreen; font-weight:bold;" \in shown
        medium == "color:darkorange; font-weight:bold;" \in shown
        low == "color:red; font-weight:bold;" \in shown
    IN  /\ Cardinality(shown) = 1
        /\ t >= 1 =>
             /\ high <=> 100 * c >= 80 * t
             /\ medium <=> (70 * t <= 100 * c /\ 100 * c < 80 * t)
             /\ low <=> 100 * c < 70 * t
        /\ t = 0 =>
             /\ percentage(c, t).num = 0
             /\ low

\* 7 of 10: exactly 70 per cent, the lower edge of the medium band
C18_Witness ==
  /\ last = "ShowScore"
  /\ correct_answers_count = 7
  /\ total_questions_asked = 10
  /\ shown = {"color:darkorange; font-weight:bold;"}

====
